---- MODULE Spec2Model ----
(***************************************************************************)
(* Model of internal/fixer/style_conflicts.go: the style-conflict cleanup, *)
(* the validator and the filesystem they walk.                             *)
(*                                                                         *)
(* A path is the sequence of its components below projectPath, so          *)
(* filepath.Join(path, name) is Append(path, name) and projectPath itself  *)
(* is the empty sequence.  filepath.Walk is modelled one system call per   *)
(* step (lstat, readdir, stat, remove), the places where another process   *)
(* can change the tree between two steps of the walk.                      *)
(***************************************************************************)
EXTENDS Integers, Sequences, FiniteSets, TLC

VARIABLES
    dirs,       \* the directories of the skeleton that exist
    files,      \* files[d][n]: kind of the entry named n in directory d
    perm,       \* perm[d]: permission bits of d as the system calls met them
    op,         \* operation of the current or last run
    style,      \* the style argument of CleanupStyleConflicts
    pc,         \* position inside the running operation ("idle": none runs)
    cur,        \* path the walk is at
    stack,      \* frames of walk(): directory and the names still to visit
    idx,        \* index of the visitor's loop over knownStyleConflicts
    conflicts,  \* ValidateNoStyleConflicts: the diagnostics collected
    result,     \* error returned by the last finished run (Nil: no error)
    start,      \* the tree when the current run started
    removed,    \* paths os.Remove deleted in the current run
    reached,    \* directories the visitor was called for in the current run
    prev,       \* what the run before the current one was and returned
    runsLeft,   \* runs the caller may still start
    extLog,     \* external deletions during the current run
    out,        \* the last call of a function without side effects and its value
    visited     \* the directories in reached, in the order the visitor came to them

vars == <<dirs, files, perm, op, style, pc, cur, stack, idx, conflicts,
          result, start, removed, reached, prev, runsLeft, extLog, out, visited>>

----------------------------------------------------------------------------
(* Bounds of the model *)

\* operations the caller issues one after the other
MaxRuns == 2
\* deletions by another process during one run
MaxExt == 1

----------------------------------------------------------------------------
(* Program constants *)

knownStyleConflicts ==
    << [GoZeroStyle |-> "service_context.go", GoZeroFlat |-> "servicecontext.go"] >>

Root == <<>>
Internal == <<"internal">>
Svc == <<"internal", "svc">>
Handler == <<"internal", "handler">>
Logic == <<"internal", "logic">>

\* the directory skeleton of a project: the root, internal/ and the three
\* directories DetectExistingStyle probes
Dirs == {Root, Internal, Svc, Handler, Logic}

FileNames == {"service_context.go", "servicecontext.go"}

\* every name an entry of the skeleton can have, in the lexical order
\* readDirNames sorts the names of a directory into
SortedNames ==
    <<"handler", "internal", "logic", "service_context.go", "servicecontext.go", "svc">>

\* style arguments: the two recognised tags, none, and a misspelt one
Styles == {"go_zero", "gozero", "", "go-zero"}

Kinds == {"none", "file", "dir", "other"}

----------------------------------------------------------------------------
(* The filesystem *)

Join(path, name) == Append(path, name)

Parent(path) == SubSeq(path, 1, Len(path) - 1)

IsPrefix(p, q) == Len(p) <= Len(q) /\ SubSeq(q, 1, Len(p)) = p

\* kind of the entry at path in tree (ds, fs): "none" when nothing is there
KindIn(ds, fs, path) ==
    IF path \in Dirs
    THEN IF path \in ds THEN "dir" ELSE "none"
    ELSE IF Len(path) > 0 /\ Parent(path) \in ds /\ path[Len(path)] \in FileNames
         THEN fs[Parent(path)][path[Len(path)]]
         ELSE "none"

KindAt(path) == KindIn(dirs, files, path)

\* os.Stat as fileExists uses it: err # nil exactly when nothing is at path
Stat(path) == [err |-> KindAt(path) = "none", isDir |-> KindAt(path) = "dir"]

fileExists(path) ==
    LET st == Stat(path)
    IN  IF st.err THEN FALSE ELSE ~st.isDir

\* the sorted names of the entries of directory d
readDirNames(d) == SelectSeq(SortedNames, LAMBDA n : KindAt(Join(d, n)) # "none")

EmptyDir == [n \in FileNames |-> "none"]

----------------------------------------------------------------------------
(* Errors *)

Nil == [kind |-> "nil", errno |-> "", path |-> <<>>, lines |-> <<>>]

\* an error of the tree walk (lstat or readdir failed at path)
ErrWalk(errno, path) == [kind |-> "walk", errno |-> errno, path |-> path, lines |-> <<>>]

\* "failed to remove conflicting file %s: %w"
ErrRemove(errno, path) == [kind |-> "remove", errno |-> errno, path |-> path, lines |-> <<>>]

\* "style conflicts detected:\n" followed by the diagnostics, one per line
ErrConflicts(lines) == [kind |-> "conflicts", errno |-> "", path |-> <<>>, lines |-> lines]

\* filepath.Rel(projectPath, path): "." for the root itself
Rel(path) == IF path = Root THEN <<".">> ELSE path

\* "%s: both %s and %s exist"
ConflictLine(path, conflict) == <<Rel(path), conflict.GoZeroStyle, conflict.GoZeroFlat>>

----------------------------------------------------------------------------
(* filepath.Walk *)

\* the entry walk() turns to after the visitor returned nil: the next name of
\* the innermost directory that has one left, or the end of the walk
RECURSIVE Advance(_)
Advance(stk) ==
    IF stk = <<>>
    THEN [done |-> TRUE, cur |-> Root, stack |-> <<>>]
    ELSE LET top == stk[Len(stk)]
         IN  IF top.names = <<>>
             THEN Advance(SubSeq(stk, 1, Len(stk) - 1))
             ELSE [done |-> FALSE,
                   cur |-> Join(top.dir, Head(top.names)),
                   stack |-> [stk EXCEPT ![Len(stk)].names = Tail(@)]]

\* what the operation returns when its walk returned err
Outcome(err, cs) ==
    IF op = "validate"
    THEN IF err # Nil THEN err
         ELSE IF Len(cs) > 0 THEN ErrConflicts(cs) ELSE Nil
    ELSE err

\* the operation returns
Return(err, cs) ==
    /\ pc' = "idle"
    /\ cur' = Root
    /\ stack' = <<>>
    /\ idx' = 1
    /\ result' = Outcome(err, cs)

\* the visitor returned nil for the entry at hand: on with the walk
Resume(stk, cs) ==
    LET a == Advance(stk)
    IN  IF a.done
        THEN Return(Nil, cs)
        ELSE /\ pc' = "lstat"
             /\ cur' = a.cur
             /\ stack' = a.stack
             /\ idx' = 1
             /\ result' = result

\* mutant: every error the walk hands to the visitor is ignored
CleanupOnErrorIgnoresAll(err) == Nil

\* mutant: no error is ignored, "no such file" neither
CleanupOnErrorReturnsAll(err) == err

\* lines 30-36: the visitor of CleanupStyleConflicts called with err # nil
\* ignores "no such file" and returns every other error
CleanupOnError(err) == IF err.errno = "ENOENT" THEN Nil ELSE err

\* lines 127-129: the visitor of ValidateNoStyleConflicts returns err as it is
ValidateOnError(err) == err

\* mutant: on "no such file" the visitor of CleanupStyleConflicts ends the
\* walk (filepath.SkipAll) instead of letting it go on
VisitErrorStops(err) ==
    LET r == IF op = "cleanup" THEN CleanupOnError(err) ELSE ValidateOnError(err)
    IN  Return(r, conflicts)

\* the visitor is called with an error instead of a directory to look at
VisitError(err) ==
    LET r == IF op = "cleanup" THEN CleanupOnError(err) ELSE ValidateOnError(err)
    IN  IF r = Nil THEN Resume(stack, conflicts) ELSE Return(r, conflicts)

\* the visitor is done with pair idx of the directory at hand
NextPair(cs) ==
    IF idx < Len(knownStyleConflicts)
    THEN /\ idx' = idx + 1
         /\ UNCHANGED <<pc, cur, stack, result>>
    ELSE Resume(stack, cs)

\* the values a permission bit can turn out to have when a system call first
\* needs it; from then on it stays what it was found to be
Resolve(bit) == IF bit = "?" THEN {"y", "n"} ELSE {bit}

----------------------------------------------------------------------------
(* The caller *)

NoPrev == [op |-> "none", style |-> "", result |-> Nil, quiet |-> TRUE]

Tree == [dirs |-> dirs, files |-> files]

\* a run starts: the walk is at the root, the history of the run is empty
StartRun(o, s) ==
    /\ runsLeft' = runsLeft - 1
    /\ op' = o
    /\ style' = s
    /\ pc' = "lstat"
    /\ cur' = Root
    /\ stack' = <<>>
    /\ idx' = 1
    /\ conflicts' = <<>>
    /\ result' = Nil
    /\ start' = Tree
    /\ removed' = {}
    /\ reached' = {}
    /\ visited' = <<>>
    /\ extLog' = <<>>
    /\ prev' = [op |-> op, style |-> style, result |-> result, quiet |-> extLog = <<>>]
    /\ UNCHANGED <<dirs, files, perm, out>>

\* line 24: CleanupStyleConflicts(projectPath, s) is called
CleanupStyleConflicts(s) ==
    /\ pc = "idle"
    /\ runsLeft > 0
    /\ StartRun("cleanup", s)

\* line 123: ValidateNoStyleConflicts(projectPath) is called
ValidateNoStyleConflicts ==
    /\ pc = "idle"
    /\ runsLeft > 0
    /\ StartRun("validate", "")

\* line 26
\* mutant: every style but "gozero" keeps the snake_case file
keepUnlessFlat == (style # "gozero")

keepGoZeroStyle == (style = "go_zero")

----------------------------------------------------------------------------
(* The walk, shared by both operations *)

\* os.Lstat of the entry at hand, by Walk for the root and by walk() for each
\* name of a directory; the visitor is called at once for what is no directory
WalkLstat ==
    /\ pc = "lstat"
    /\ IF KindAt(cur) = "none"
       THEN VisitError(ErrWalk("ENOENT", cur))
       ELSE IF KindAt(cur) = "dir"
            THEN /\ pc' = "readdir"
                 /\ UNCHANGED <<cur, stack, idx, result>>
            ELSE \* lines 39-41 and 131-133: not a directory, return nil
                 Resume(stack, conflicts)
    /\ UNCHANGED <<dirs, files, perm, op, style, conflicts, start, removed,
                   reached, prev, runsLeft, extLog, out, visited>>

\* readDirNames of the directory at hand, then the visitor is called for it
WalkReadDir ==
    /\ pc = "readdir"
    /\ IF KindAt(cur) # "dir"
       THEN /\ VisitError(ErrWalk("ENOENT", cur))
            /\ UNCHANGED <<perm, reached, visited>>
       ELSE \E r \in (IF cur \in Dirs THEN Resolve(perm[cur].r) ELSE {"y"}) :
              /\ perm' = IF cur \in Dirs THEN [perm EXCEPT ![cur].r = r] ELSE perm
              /\ IF r = "n"
                 THEN /\ VisitError(ErrWalk("EACCES", cur))
                      /\ UNCHANGED <<reached, visited>>
                 ELSE /\ pc' = "visit"
                      /\ stack' = Append(stack, [dir |-> cur, names |-> readDirNames(cur)])
                      /\ reached' = reached \cup {cur}
                      /\ visited' = Append(visited, cur)
                      /\ UNCHANGED <<cur, idx, result>>
    /\ UNCHANGED <<dirs, files, op, style, conflicts, start, removed, prev,
                   runsLeft, extLog, out>>

----------------------------------------------------------------------------
(* The visitor of CleanupStyleConflicts *)

\* the names of a directory come in another order: the walk turns to another
\* of the entries it has still to visit, and to the one at hand later
WalkReorder ==
    /\ pc = "lstat"
    /\ stack # <<>>
    /\ LET top == stack[Len(stack)]
           here == cur[Len(cur)]
       IN  \E i \in 1..Len(top.names) :
             LET rest == ({top.names[k] : k \in 1..Len(top.names)} \ {top.names[i]}) \cup {here}
             IN  /\ cur' = Join(top.dir, top.names[i])
                 /\ stack' = [stack EXCEPT ![Len(stack)].names =
                                  SelectSeq(SortedNames, LAMBDA n : n \in rest)]
    /\ UNCHANGED <<dirs, files, perm, op, style, pc, idx, conflicts, result, start,
                   removed, reached, prev, runsLeft, extLog, out, visited>>

goZeroFile == Join(cur, knownStyleConflicts[idx].GoZeroStyle)
gozeroFile == Join(cur, knownStyleConflicts[idx].GoZeroFlat)

\* mutant: the file of the chosen style is the one removed
fileToRemoveSwapped == IF keepGoZeroStyle THEN goZeroFile ELSE gozeroFile

\* lines 54-59
fileToRemove == IF keepGoZeroStyle THEN gozeroFile ELSE goZeroFile

\* mutant: one file of the pair is enough for a conflict (|| for &&)
CleanupDetectEither ==
    /\ pc = "visit"
    /\ op = "cleanup"
    /\ IF fileExists(goZeroFile) \/ fileExists(gozeroFile)
       THEN /\ pc' = "recheck"
            /\ UNCHANGED <<cur, stack, idx, result>>
       ELSE NextPair(conflicts)
    /\ UNCHANGED <<dirs, files, perm, op, style, conflicts, start, removed,
                   reached, prev, runsLeft, extLog, out, visited>>

\* mutant: a conflict is taken up only while the run has removed nothing, so
\* what happens in a directory depends on the directories visited before it
CleanupDetectFirstOnly ==
    /\ pc = "visit"
    /\ op = "cleanup"
    /\ IF fileExists(goZeroFile) /\ fileExists(gozeroFile) /\ removed = {}
       THEN /\ pc' = "recheck"
            /\ UNCHANGED <<cur, stack, idx, result>>
       ELSE NextPair(conflicts)
    /\ UNCHANGED <<dirs, files, perm, op, style, conflicts, start, removed,
                   reached, prev, runsLeft, extLog, out, visited>>

\* lines 45-52: both files of the pair are looked up.  The two stats are one
\* step: a deletion between them has the effect of one before or after both.
CleanupDetect ==
    /\ pc = "visit"
    /\ op = "cleanup"
    /\ IF fileExists(goZeroFile) /\ fileExists(gozeroFile)
       THEN /\ pc' = "recheck"
            /\ UNCHANGED <<cur, stack, idx, result>>
       ELSE NextPair(conflicts)
    /\ UNCHANGED <<dirs, files, perm, op, style, conflicts, start, removed,
                   reached, prev, runsLeft, extLog, out, visited>>

\* line 62: "double-check file exists before removing"
CleanupRecheck ==
    /\ pc = "recheck"
    /\ IF fileExists(fileToRemove)
       THEN /\ pc' = "remove"
            /\ UNCHANGED <<cur, stack, idx, result>>
       ELSE NextPair(conflicts)
    /\ UNCHANGED <<dirs, files, perm, op, style, conflicts, start, removed,
                   reached, prev, runsLeft, extLog, out, visited>>

\* mutant: a failed removal puts back what the run has removed
CleanupRemoveRollsBack ==
    /\ pc = "remove"
    /\ IF KindAt(fileToRemove) = "none"
       THEN /\ Return(ErrRemove("ENOENT", fileToRemove), conflicts)
            /\ UNCHANGED <<files, perm, removed>>
       ELSE \E w \in Resolve(perm[cur].w) :
              /\ perm' = [perm EXCEPT ![cur].w = w]
              /\ IF w = "n"
                 THEN /\ Return(ErrRemove("EACCES", fileToRemove), conflicts)
                      /\ files' = start.files
                      /\ removed' = removed
                 ELSE /\ files' = [files EXCEPT ![cur][fileToRemove[Len(fileToRemove)]] = "none"]
                      /\ removed' = removed \cup {fileToRemove}
                      /\ NextPair(conflicts)
    /\ UNCHANGED <<dirs, op, style, conflicts, start, reached, prev, runsLeft, extLog, out, visited>>

\* lines 63-65: os.Remove(fileToRemove)
CleanupRemove ==
    /\ pc = "remove"
    /\ IF KindAt(fileToRemove) = "none"
       THEN /\ Return(ErrRemove("ENOENT", fileToRemove), conflicts)
            /\ UNCHANGED <<files, perm, removed>>
       ELSE \E w \in Resolve(perm[cur].w) :
              /\ perm' = [perm EXCEPT ![cur].w = w]
              /\ IF w = "n"
                 THEN /\ Return(ErrRemove("EACCES", fileToRemove), conflicts)
                      /\ UNCHANGED <<files, removed>>
                 ELSE /\ files' = [files EXCEPT ![cur][fileToRemove[Len(fileToRemove)]] = "none"]
                      /\ removed' = removed \cup {fileToRemove}
                      /\ NextPair(conflicts)
    /\ UNCHANGED <<dirs, op, style, conflicts, start, reached, prev, runsLeft, extLog, out, visited>>

----------------------------------------------------------------------------
(* The visitor of ValidateNoStyleConflicts *)

\* mutant: the walk ends at the first conflict
ValidateCheckStopsAtFirst ==
    /\ pc = "visit"
    /\ op = "validate"
    /\ IF fileExists(goZeroFile) /\ fileExists(gozeroFile)
       THEN LET cs == Append(conflicts, ConflictLine(cur, knownStyleConflicts[idx]))
            IN  conflicts' = cs /\ Return(Nil, cs)
       ELSE conflicts' = conflicts /\ NextPair(conflicts)
    /\ UNCHANGED <<dirs, files, perm, op, style, start, removed, reached, prev,
                   runsLeft, extLog, out, visited>>

\* mutant: the validator repairs what it finds and removes the flat file
ValidateCheckRemoves ==
    /\ pc = "visit"
    /\ op = "validate"
    /\ LET both == fileExists(goZeroFile) /\ fileExists(gozeroFile)
           cs == IF both
                 THEN Append(conflicts, ConflictLine(cur, knownStyleConflicts[idx]))
                 ELSE conflicts
       IN  /\ conflicts' = cs
           /\ files' = IF both
                       THEN [files EXCEPT ![cur][knownStyleConflicts[idx].GoZeroFlat] = "none"]
                       ELSE files
           /\ NextPair(cs)
    /\ UNCHANGED <<dirs, perm, op, style, start, removed, reached, prev,
                   runsLeft, extLog, out, visited>>

\* lines 135-146
ValidateCheck ==
    /\ pc = "visit"
    /\ op = "validate"
    /\ LET cs == IF fileExists(goZeroFile) /\ fileExists(gozeroFile)
                 THEN Append(conflicts, ConflictLine(cur, knownStyleConflicts[idx]))
                 ELSE conflicts
       IN  /\ conflicts' = cs
           /\ NextPair(cs)
    /\ UNCHANGED <<dirs, files, perm, op, style, start, removed, reached, prev,
                   runsLeft, extLog, out, visited>>

----------------------------------------------------------------------------
(* Another process deleting entries while an operation runs *)

Gone(d) == {e \in Dirs : IsPrefix(d, e)}

\* rm -r of directory d.  early: the visitor had not been called for d yet.
ExtRemoveDir(d) ==
    /\ pc # "idle"
    /\ Len(extLog) < MaxExt
    /\ d \in dirs
    /\ dirs' = dirs \ Gone(d)
    /\ files' = [e \in Dirs |-> IF e \in Gone(d) THEN EmptyDir ELSE files[e]]
    /\ extLog' = Append(extLog, [kind |-> "dir", path |-> d, early |-> d \notin reached,
                                 victim |-> ""])
    /\ UNCHANGED <<perm, op, style, pc, cur, stack, idx, conflicts, result, start,
                   removed, reached, prev, runsLeft, out, visited>>

\* rm of the entry named n of directory d.  victim: where the visitor stood
\* ("recheck": before line 62, "remove": before line 63) when the entry is
\* the file it had found in conflict and was about to remove.
ExtRemoveFile(d, n) ==
    /\ pc # "idle"
    /\ Len(extLog) < MaxExt
    /\ KindAt(Join(d, n)) # "none"
    /\ files' = [files EXCEPT ![d][n] = "none"]
    /\ extLog' = Append(extLog, [kind |-> "file", path |-> Join(d, n),
                                 early |-> d \notin reached,
                                 victim |-> IF /\ pc \in {"recheck", "remove"}
                                               /\ Join(d, n) = fileToRemove
                                            THEN pc ELSE ""])
    /\ UNCHANGED <<dirs, perm, op, style, pc, cur, stack, idx, conflicts, result,
                   start, removed, reached, prev, runsLeft, out, visited>>

----------------------------------------------------------------------------
(* The functions that only read the tree *)

\* lines 81-85: the directories DetectExistingStyle probes, in probe order
commonDirs == <<Svc, Handler, Logic>>

\* no function has been called
NoCall == [fn |-> "none", path |-> <<>>, defaultStyle |-> "", exists |-> FALSE, style |-> ""]

\* mutant: the flat file of a directory is probed before the snake_case file
RECURSIVE DetectFromFlatFirst(_, _)
DetectFromFlatFirst(i, j) ==
    IF i > Len(knownStyleConflicts)
    THEN ""
    ELSE IF j > Len(commonDirs)
         THEN DetectFromFlatFirst(i + 1, 1)
         ELSE IF fileExists(Join(commonDirs[j], knownStyleConflicts[i].GoZeroFlat))
              THEN "gozero"
              ELSE IF fileExists(Join(commonDirs[j], knownStyleConflicts[i].GoZeroStyle))
                   THEN "go_zero"
                   ELSE DetectFromFlatFirst(i, j + 1)

\* lines 79-100: the two loops of DetectExistingStyle from pair i and
\* directory j on
RECURSIVE DetectFrom(_, _)
DetectFrom(i, j) ==
    IF i > Len(knownStyleConflicts)
    THEN ""                                                       \* line 100
    ELSE IF j > Len(commonDirs)
         THEN DetectFrom(i + 1, 1)
         ELSE IF fileExists(Join(commonDirs[j], knownStyleConflicts[i].GoZeroStyle))
              THEN "go_zero"                                      \* lines 91-93
              ELSE IF fileExists(Join(commonDirs[j], knownStyleConflicts[i].GoZeroFlat))
                   THEN "gozero"                                  \* lines 94-96
                   ELSE DetectFrom(i, j + 1)

\* line 78
DetectExistingStyle == DetectFrom(1, 1)

\* mutant: the default wins over what the tree shows
SuggestDefaultFirst(defaultStyle) ==
    LET existingStyle == DetectExistingStyle
    IN  IF defaultStyle # "" THEN defaultStyle ELSE existingStyle

\* mutant: no fallback, the detected style is returned as it is
SuggestDetectedOnly(defaultStyle) == DetectExistingStyle

\* lines 114-119
SuggestStyleBasedOnExisting(defaultStyle) ==
    LET existingStyle == DetectExistingStyle
    IN  IF existingStyle # "" THEN existingStyle ELSE defaultStyle

\* default styles a caller passes: the two tags, none, and one of its own
Defaults == {"go_zero", "gozero", "", "custom"}

\* paths a caller asks fileExists about: every entry and directory of the
\* skeleton and a path nothing of the skeleton has
Probes == {Join(d, n) : d \in Dirs, n \in FileNames} \cup Dirs \cup {<<"missing">>}

\* DetectExistingStyle(projectPath) is called and returns
CallDetectExistingStyle ==
    /\ pc = "idle"
    /\ out' = [NoCall EXCEPT !.fn = "DetectExistingStyle", !.style = DetectExistingStyle]
    /\ UNCHANGED <<dirs, files, perm, op, style, pc, cur, stack, idx, conflicts, result,
                   start, removed, reached, prev, runsLeft, extLog, visited>>

\* SuggestStyleBasedOnExisting(projectPath, d) is called and returns
CallSuggestStyleBasedOnExisting(d) ==
    /\ pc = "idle"
    /\ out' = [NoCall EXCEPT !.fn = "SuggestStyleBasedOnExisting", !.defaultStyle = d,
                             !.style = SuggestStyleBasedOnExisting(d)]
    /\ UNCHANGED <<dirs, files, perm, op, style, pc, cur, stack, idx, conflicts, result,
                   start, removed, reached, prev, runsLeft, extLog, visited>>

\* fileExists(p) is called and returns
CallFileExists(p) ==
    /\ pc = "idle"
    /\ out' = [NoCall EXCEPT !.fn = "fileExists", !.path = p, !.exists = fileExists(p)]
    /\ UNCHANGED <<dirs, files, perm, op, style, pc, cur, stack, idx, conflicts, result,
                   start, removed, reached, prev, runsLeft, extLog, visited>>

----------------------------------------------------------------------------
(* Initial trees *)

\* MaxPopulated directories hold entries under the names of the pair
MaxPopulated == 2
\* the same, where another process interferes
MaxRacePopulated == 1

Populated(fs) == {d \in Dirs : fs[d] # EmptyDir}

\* regular files under either name, in up to k directories
PlainTrees(k) ==
    {fs \in [Dirs -> [FileNames -> {"none", "file"}]] : Cardinality(Populated(fs)) <= k}

\* directories of a tree of a single run that may hold files
MaxOncePopulated == 3
\* directories of a tree walked in every order that may hold files
MaxOrderPopulated == 2

\* entries of every kind (a directory, a device or pipe) in one directory
OddTrees ==
    {[d \in Dirs |-> IF d = e THEN c ELSE EmptyDir] : e \in Dirs, c \in [FileNames -> Kinds]}

\* no permission bit has been met yet
NoPerm == [d \in Dirs |-> [r |-> "?", w |-> "?"]]

\* every directory can be read and written
AllPerm == [d \in Dirs |-> [r |-> "y", w |-> "y"]]

InitRun ==
    /\ op = "none"
    /\ style = ""
    /\ pc = "idle"
    /\ cur = Root
    /\ stack = <<>>
    /\ idx = 1
    /\ conflicts = <<>>
    /\ result = Nil
    /\ start = Tree
    /\ removed = {}
    /\ reached = {}
    /\ visited = <<>>
    /\ prev = NoPrev
    /\ extLog = <<>>
    /\ out = NoCall

\* the project exists with any contents, or projectPath names nothing
InitTree(trees) ==
    \/ dirs = Dirs /\ files \in trees
    \/ dirs = {} /\ files = [d \in Dirs |-> EmptyDir]

Init ==
    /\ InitTree(PlainTrees(MaxPopulated) \cup OddTrees)
    /\ perm = NoPerm
    /\ runsLeft = MaxRuns
    /\ InitRun

Step ==
    \/ \E s \in Styles : CleanupStyleConflicts(s)
    \/ ValidateNoStyleConflicts
    \/ WalkLstat
    \/ WalkReadDir
    \/ CleanupDetect
    \/ CleanupRecheck
    \/ CleanupRemove
    \/ ValidateCheck

Next == Step

\* operations run one after the other on a tree nothing else touches
Spec == Init /\ [][Next]_vars

InitRace ==
    /\ InitTree(PlainTrees(MaxRacePopulated))
    /\ perm = AllPerm
    /\ runsLeft = 1
    /\ InitRun

NextRace ==
    \/ Step
    \/ \E d \in Dirs : ExtRemoveDir(d)
    \/ \E d \in Dirs, n \in FileNames : ExtRemoveFile(d, n)

\* one operation runs on a tree it may read and write while another process
\* deletes entries of the tree
SpecRace == InitRace /\ [][NextRace]_vars

InitOnce ==
    /\ InitTree(PlainTrees(MaxOncePopulated))
    /\ perm = NoPerm
    /\ runsLeft = 1
    /\ InitRun

\* one operation runs on a tree nothing else touches
SpecOnce == InitOnce /\ [][Next]_vars

InitOrder ==
    /\ InitTree(PlainTrees(MaxOrderPopulated))
    /\ perm = NoPerm
    /\ runsLeft = 1
    /\ InitRun

NextOrder ==
    \/ Step
    \/ WalkReorder

\* one operation runs on a tree nothing else touches and visits the entries
\* of every directory in any order
SpecOrder == InitOrder /\ [][NextOrder]_vars

\* trees for the functions that only read: entries of every kind in
\* internal/svc and internal/handler, files in internal/logic, the root and
\* internal/ both empty or both holding the two files of the pair; or a project of which only internal/handler exists;
\* or no project at all
ProbeTrees ==
    {[dirs |-> Dirs,
      files |-> [d \in Dirs |-> IF d = Svc THEN s ELSE IF d = Handler THEN h
                                ELSE IF d = Logic THEN l
                                ELSE IF elsewhere THEN [n \in FileNames |-> "file"]
                                ELSE EmptyDir]] :
        s \in [FileNames -> Kinds], h \in [FileNames -> Kinds],
        l \in [FileNames -> {"none", "file"}], elsewhere \in BOOLEAN}
    \cup {[dirs |-> {Root, Internal, Handler},
           files |-> [d \in Dirs |-> IF d = Handler THEN h ELSE EmptyDir]] :
             h \in [FileNames -> Kinds]}
    \cup {[dirs |-> {}, files |-> [d \in Dirs |-> EmptyDir]]}

InitPure ==
    /\ \E t \in ProbeTrees : dirs = t.dirs /\ files = t.files
    /\ perm = AllPerm
    /\ runsLeft = 0
    /\ InitRun

NextPure ==
    \/ CallDetectExistingStyle
    \/ \E d \in Defaults : CallSuggestStyleBasedOnExisting(d)
    \/ \E p \in Probes : CallFileExists(p)

\* a caller asks the functions that only read the tree about a tree
SpecPure == InitPure /\ [][NextPure]_vars

----------------------------------------------------------------------------
(* What the claims speak about *)

Done(o) == pc = "idle" /\ op = o

\* nothing but the operation touched the tree during the current run
Quiet == extLog = <<>>

\* an entry that is there and is no directory: "the file" of that name
IsFile(k) == k \in {"file", "other"}

Pairs == {knownStyleConflicts[i] : i \in 1..Len(knownStyleConflicts)}

\* directory d of tree t holds both files of pair c
Conflict(t, d, c) ==
    /\ d \in t.dirs
    /\ IsFile(KindIn(t.dirs, t.files, Join(d, c.GoZeroStyle)))
    /\ IsFile(KindIn(t.dirs, t.files, Join(d, c.GoZeroFlat)))

\* the (directory, pair) conflicts of tree t
ConflictsOf(t) == {<<d, c>> \in Dirs \X Pairs : Conflict(t, d, c)}

\* every path an entry of the skeleton can have
Slots == {Join(d, n) : d \in Dirs, n \in FileNames}

\* the file of pair c a run with style s keeps, and the one it is to remove
KeptName(s, c) == IF s = "go_zero" THEN c.GoZeroStyle ELSE c.GoZeroFlat
DroppedName(s, c) == IF s = "go_zero" THEN c.GoZeroFlat ELSE c.GoZeroStyle

\* in directory d the run kept the file of its style as it was and the other
\* file of pair c is gone
Resolved(d, c) ==
    /\ KindAt(Join(d, KeptName(style, c))) = KindIn(start.dirs, start.files, Join(d, KeptName(style, c)))
    /\ KindAt(Join(d, DroppedName(style, c))) = "none"

----------------------------------------------------------------------------
(* C1 *)

\* C1: after CleanupStyleConflicts returned without error, nothing else having
\* touched the tree during the run, no directory of the tree holds both files
\* of a conflict pair, whatever the initial tree and the style.
C1_NoConflictLeft ==
    (Done("cleanup") /\ result = Nil /\ Quiet) => ConflictsOf(Tree) = {}

\* a successful cleanup of a tree that had conflicts in two directories
C1_Witness ==
    /\ Done("cleanup") /\ result = Nil /\ Quiet
    /\ Cardinality(ConflictsOf(start)) >= 2
    /\ Cardinality(removed) >= 2

----------------------------------------------------------------------------
(* C2 *)

\* C2 as claimed: whenever CleanupStyleConflicts has run with "go_zero" (with
\* "gozero"), every directory that held both files of a pair holds exactly
\* the snake_case (the flat) file of the pair.
C2_AsClaimed ==
    (Done("cleanup") /\ Quiet /\ style \in {"go_zero", "gozero"})
        => \A x \in ConflictsOf(start) : Resolved(x[1], x[2])

\* C2, amended: when CleanupStyleConflicts with "go_zero" (with "gozero")
\* returned no error, every directory that held both files of a pair holds
\* exactly the snake_case (the flat) file of the pair.
C2_KeepsChosenStyle ==
    (Done("cleanup") /\ Quiet /\ style \in {"go_zero", "gozero"} /\ result = Nil)
        => \A x \in ConflictsOf(start) : Resolved(x[1], x[2])

\* a successful "gozero" cleanup that removed a snake_case file
C2_Witness ==
    /\ Done("cleanup") /\ Quiet /\ style = "gozero" /\ result = Nil
    /\ \E x \in ConflictsOf(start) :
         /\ Join(x[1], x[2].GoZeroStyle) \in removed
         /\ KindAt(Join(x[1], x[2].GoZeroFlat)) = "file"

----------------------------------------------------------------------------
(* C3 *)

\* C3: CleanupStyleConflicts changes the tree only by deleting files: what it
\* removes is the file of the other style in a directory that held both files
\* of the pair, so at most one file per pair and directory and never the kept
\* one; every entry that is gone was removed by it, and nothing is created,
\* renamed or turned into something else.
C3_OnlyDeletesTheOtherFile ==
    op = "cleanup" =>
        /\ \A p \in removed :
             \E x \in ConflictsOf(start) : p = Join(x[1], DroppedName(style, x[2]))
        /\ \A d \in Dirs, c \in Pairs :
             ~(Join(d, c.GoZeroStyle) \in removed /\ Join(d, c.GoZeroFlat) \in removed)
        /\ \A p \in Slots :
             IF p \in removed
             THEN KindAt(p) = "none"
             ELSE KindAt(p) = KindIn(start.dirs, start.files, p)
        /\ dirs = start.dirs

\* a cleanup that removed a file and left a directory with one half alone
C3_Witness ==
    /\ Done("cleanup")
    /\ removed # {}
    /\ \E d \in Dirs : /\ ~\E c \in Pairs : Conflict(start, d, c)
                       /\ \E n \in FileNames : KindAt(Join(d, n)) = "file"

----------------------------------------------------------------------------
(* C4 *)

\* the current run is a cleanup right after a cleanup with the same style
SecondCleanup ==
    /\ Done("cleanup") /\ Quiet
    /\ prev.op = "cleanup" /\ prev.style = style /\ prev.quiet

\* C4 as claimed: the second of two cleanups in a row with the same style
\* returns no error and deletes nothing.
C4_AsClaimed ==
    SecondCleanup => (result = Nil /\ removed = {} /\ Tree = start)

\* C4, amended: when the first of two cleanups in a row with the same style
\* returned no error, the second returns no error and deletes nothing.
C4_Idempotent ==
    (SecondCleanup /\ prev.result = Nil)
        => (result = Nil /\ removed = {} /\ Tree = start)

\* the second cleanup of a tree left with one file of the pair by the first
C4_Witness ==
    /\ SecondCleanup /\ prev.result = Nil
    /\ \E d \in Dirs, c \in Pairs :
         /\ KindAt(Join(d, KeptName(style, c))) = "file"
         /\ perm[d].w = "y"

----------------------------------------------------------------------------
(* C5 *)

\* C5: ValidateNoStyleConflicts right after a CleanupStyleConflicts that
\* returned no error returns no error, whatever the tree and the style.
C5_ValidateAfterCleanup ==
    (Done("validate") /\ Quiet /\ prev.op = "cleanup" /\ prev.quiet /\ prev.result = Nil)
        => result = Nil

\* the same for a project that exists: the run C5 fails on is the one where
\* projectPath names nothing
C5_WhenRootExists ==
    (Done("validate") /\ Quiet /\ prev.op = "cleanup" /\ prev.quiet /\ prev.result = Nil
        /\ start.dirs # {})
        => result = Nil

----------------------------------------------------------------------------
(* C6 *)

LinesOf(t) == {ConflictLine(x[1], x[2]) : x \in ConflictsOf(t)}

\* err is the aggregate error with exactly one line for every conflict of t
ListsEvery(err, t) ==
    /\ err.kind = "conflicts"
    /\ {err.lines[i] : i \in 1..Len(err.lines)} = LinesOf(t)
    /\ Len(err.lines) = Cardinality(LinesOf(t))

\* C6 as claimed, of a project that exists: ValidateNoStyleConflicts returns
\* no error iff no directory holds both files of a pair, and otherwise the
\* aggregate error with exactly one line for every (directory, pair) in which
\* both files exist.
C6_AsClaimed ==
    (Done("validate") /\ Quiet /\ start.dirs # {})
        => /\ (result = Nil) <=> (ConflictsOf(Tree) = {})
           /\ result # Nil => ListsEvery(result, Tree)

\* C6, amended: a traversal error (projectPath is missing, a directory cannot
\* be read) ends the walk and is what ValidateNoStyleConflicts returns; when
\* the walk met none, it returns no error iff no directory holds both files
\* of a pair, and otherwise, having walked the whole tree, the aggregate
\* error with exactly one line for every (directory, pair) in which both exist.
C6_AggregatesAllConflicts ==
    (Done("validate") /\ Quiet)
        => IF result.kind = "walk"
           THEN \/ result.errno = "ENOENT" /\ result.path = Root /\ dirs = {}
                \/ result.errno = "EACCES" /\ result.path \in dirs
                     /\ perm[result.path].r = "n"
           ELSE /\ (result = Nil) <=> (ConflictsOf(Tree) = {})
                /\ result # Nil => ListsEvery(result, Tree)
                /\ reached = dirs \cup {p \in Slots : KindAt(p) = "dir"}

\* a validation that met conflicts in the first and in the last directory of
\* the walk and reports both
C6_Witness ==
    /\ Done("validate") /\ Quiet
    /\ result.kind = "conflicts"
    /\ Len(result.lines) = 2
    /\ result.lines[1][1] = Rel(Root)
    /\ result.lines[2][1] = Svc

----------------------------------------------------------------------------
(* C7 *)

\* C7: ValidateNoStyleConflicts never changes the tree: at every step of a
\* validation and whatever it returns (no error, the aggregate error, a
\* traversal error), the tree is what it was when the call started.
C7_ValidateReadOnly ==
    op = "validate" => Tree = start

\* a validation that ended in a traversal error after it had met a conflict
C7_Witness ==
    /\ Done("validate")
    /\ result.kind = "walk"
    /\ Len(conflicts) > 0
    /\ ConflictsOf(Tree) # {}

----------------------------------------------------------------------------
(* C8 *)

LogOf == {extLog[i] : i \in 1..Len(extLog)}

\* all another process did during the current run is delete directories the
\* visitor had not been called for yet
OnlyVanishedDirs ==
    /\ extLog # <<>>
    /\ \A e \in LogOf : e.kind = "dir" /\ e.early

\* the same, the directories being below the root
OnlyVanishedSubdirs == OnlyVanishedDirs /\ \A e \in LogOf : e.path # Root

\* C8: a directory deleted by another process after the walk started and
\* before the visitor reached it does not abort CleanupStyleConflicts: no
\* error comes back, the walk goes on to every directory that is left, and
\* none of them holds both files of a pair when the call returns.
C8_CleanupSurvivesVanishedDir ==
    (Done("cleanup") /\ OnlyVanishedDirs)
        => /\ result = Nil
           /\ dirs \subseteq reached
           /\ ConflictsOf(Tree) = {}

\* internal/handler vanished before the walk got to it, and the walk went on
\* to internal/svc, which comes after it, and removed a file there
C8_Witness ==
    /\ Done("cleanup") /\ OnlyVanishedDirs /\ result = Nil
    /\ \E e \in LogOf : e.path = Handler
    /\ \E p \in removed : Parent(p) = Svc

----------------------------------------------------------------------------
(* C9 *)

\* C9: a directory (here: one below the root) deleted by another process
\* after the walk started and before the visitor reached it does not abort
\* ValidateNoStyleConflicts: no error comes back on account of it, and the
\* directories that are left are all audited.
C9_ValidateSurvivesVanishedDir ==
    (Done("validate") /\ OnlyVanishedSubdirs)
        => /\ result.kind # "walk"
           /\ dirs \subseteq reached

----------------------------------------------------------------------------
(* C10 *)

\* C10: when another process deletes the file to remove at any point between
\* the detection of the conflict and the removal call, CleanupStyleConflicts
\* skips the removal and returns no error for the file that had vanished.
C10_VanishedVictimAbsorbed ==
    (Done("cleanup") /\ \E e \in LogOf : e.victim # "")
        => result = Nil

\* the part of C10 the code keeps: the file vanished before the re-check of
\* line 62, and the removal is skipped
C10_BeforeRecheck ==
    (Done("cleanup") /\ \E e \in LogOf : e.victim = "recheck")
        => result = Nil

----------------------------------------------------------------------------
(* C11 *)

\* the locations and the order the claim gives for the probes
ClaimedLocations == << <<"internal", "svc">>, <<"internal", "handler">>, <<"internal", "logic">> >>

\* candidates in the claimed order: pair by pair, location by location, the
\* snake_case name before the flat name
NumCandidates == Len(knownStyleConflicts) * Len(ClaimedLocations) * 2

Candidate(k) ==
    LET perPair == Len(ClaimedLocations) * 2
        c == knownStyleConflicts[((k - 1) \div perPair) + 1]
        loc == ClaimedLocations[(((k - 1) % perPair) \div 2) + 1]
        snake == (k - 1) % 2 = 0
    IN  [path |-> Join(loc, IF snake THEN c.GoZeroStyle ELSE c.GoZeroFlat),
         style |-> IF snake THEN "go_zero" ELSE "gozero"]

\* the candidates that exist as a file in the current tree
Existing == {k \in 1..NumCandidates : IsFile(KindAt(Candidate(k).path))}

FirstExisting == CHOOSE k \in Existing : \A l \in Existing : k <= l

Returned(fn) == out.fn = fn

\* C11: DetectExistingStyle returns the style of the first candidate, in the
\* order pair, location (internal/svc, internal/handler, internal/logic),
\* snake_case before flat, that exists as a file, and the empty string exactly
\* when no candidate exists as a file; entries elsewhere play no part.
C11_FirstCandidateWins ==
    Returned("DetectExistingStyle") =>
        /\ (Existing # {} => out.style = Candidate(FirstExisting).style)
        /\ (out.style = "" <=> Existing = {})

\* the flat file of internal/svc is found although internal/handler holds the
\* snake_case file, internal/svc holds a directory under the snake_case name
\* and the root holds both files
C11_Witness ==
    /\ Returned("DetectExistingStyle")
    /\ out.style = "gozero"
    /\ KindAt(Join(Svc, "service_context.go")) = "dir"
    /\ KindAt(Join(Svc, "servicecontext.go")) = "file"
    /\ KindAt(Join(Handler, "service_context.go")) = "file"
    /\ KindAt(Join(Root, "service_context.go")) = "file"

----------------------------------------------------------------------------
(* C12 *)

\* C12: SuggestStyleBasedOnExisting returns what DetectExistingStyle returns
\* for the tree when that is not empty, and the default of the caller when it
\* is empty, whatever the default.
C12_DetectedElseDefault ==
    Returned("SuggestStyleBasedOnExisting") =>
        IF Existing # {}
        THEN out.style = Candidate(FirstExisting).style /\ out.style = DetectExistingStyle
        ELSE out.style = out.defaultStyle /\ DetectExistingStyle = ""

\* the tree shows the flat style and the caller's default is the other style
C12_Witness ==
    /\ Returned("SuggestStyleBasedOnExisting")
    /\ out.defaultStyle = "go_zero"
    /\ out.style = "gozero"
    /\ KindAt(Join(Logic, "servicecontext.go")) = "file"

----------------------------------------------------------------------------
(* C13 *)

\* C13 as claimed: the style SuggestStyleBasedOnExisting returns is never
\* empty, for every tree and every default.
C13_AsClaimed ==
    Returned("SuggestStyleBasedOnExisting") => out.style # ""

\* C13: the style SuggestStyleBasedOnExisting returns is not empty when the
\* default of the caller is not empty.
C13_NonEmptyGivenDefault ==
    Returned("SuggestStyleBasedOnExisting") /\ out.defaultStyle # "" => out.style # ""

\* nothing to detect, and the default of the caller comes back
C13_Witness ==
    /\ Returned("SuggestStyleBasedOnExisting")
    /\ Existing = {}
    /\ out.defaultStyle = "custom"
    /\ out.style = "custom"

----------------------------------------------------------------------------
(* C17 *)

\* C17: fileExists(path) is true exactly when a regular file is at path: it
\* is false for a directory, for an entry of any other kind and when stat
\* fails.
C17_TrueIffRegularFile ==
    Returned("fileExists") => (out.exists <=> KindAt(out.path) = "file")

----------------------------------------------------------------------------
(* C14 *)

\* the run ended with os.Remove failing on a file that was there
RemoveFailed == Done("cleanup") /\ Quiet /\ result.kind = "remove"

\* C14: when os.Remove fails on a file that is there, CleanupStyleConflicts
\* returns at once an error with the path of that file, which is still there;
\* the directories the walk had not come to are as they were, their conflicts
\* included, and every file the run removed before stays removed.
C14_FailsFastNoRollback ==
    RemoveFailed =>
        LET d == Parent(result.path)
        IN  /\ \E c \in Pairs : /\ Conflict(start, d, c)
                                /\ Conflict(Tree, d, c)
                                /\ result.path = Join(d, DroppedName(style, c))
            /\ d \in reached
            /\ \A e \in dirs \ reached : files[e] = start.files[e]
            /\ \A e \in reached \ {d}, c \in Pairs : Conflict(start, e, c) => Resolved(e, c)
            /\ \A p \in removed : KindAt(p) = "none"
            /\ dirs = start.dirs

\* the conflict of the root was resolved, the removal in internal/ failed and
\* the conflict of internal/handler, never visited, is still there
C14_Witness ==
    /\ RemoveFailed
    /\ style = "go_zero"
    /\ removed = {Join(Root, "servicecontext.go")}
    /\ result = ErrRemove("EACCES", Join(Internal, "servicecontext.go"))
    /\ Handler \notin reached
    /\ \E c \in Pairs : Conflict(Tree, Handler, c)

----------------------------------------------------------------------------
(* C15 *)

Unrecognised == op = "cleanup" /\ style \notin {"go_zero", "gozero"}

\* C15: CleanupStyleConflicts with a style that is neither "go_zero" nor
\* "gozero" does at every step what it does with "gozero": the file it sets
\* out to remove is the snake_case one, it removes no other, a run without
\* error leaves every directory that held both files with the flat file only,
\* and no error it returns is about the style.
C15_UnrecognisedIsFlat ==
    Unrecognised /\ Quiet =>
        /\ (pc \in {"recheck", "remove"} => fileToRemove = goZeroFile)
        /\ \A p \in removed : \E d \in Dirs, c \in Pairs :
               Conflict(start, d, c) /\ p = Join(d, c.GoZeroStyle)
        /\ (pc = "idle" /\ result = Nil =>
               \A d \in Dirs, c \in Pairs :
                   Conflict(start, d, c) =>
                       /\ KindAt(Join(d, c.GoZeroStyle)) = "none"
                       /\ KindAt(Join(d, c.GoZeroFlat)) =
                              KindIn(start.dirs, start.files, Join(d, c.GoZeroFlat)))
        /\ result.kind \in {"nil", "walk", "remove"}
        /\ (result.kind = "walk" => result.errno = "EACCES")
        /\ (result.kind = "remove" => result.errno = "EACCES")

\* a run with the misspelt style "go-zero" returned no error and removed the
\* snake_case files of two directories
C15_Witness ==
    /\ Done("cleanup")
    /\ style = "go-zero"
    /\ result = Nil
    /\ removed = {Join(Root, "service_context.go"), Join(Svc, "service_context.go")}
    /\ KindAt(Join(Svc, "servicecontext.go")) = "file"

----------------------------------------------------------------------------
(* C16 *)

\* the run was started on a projectPath that does not exist
MissingRoot == pc = "idle" /\ op \in {"cleanup", "validate"} /\ start.dirs = {} /\ Quiet

\* C16: when projectPath does not exist, CleanupStyleConflicts and
\* ValidateNoStyleConflicts return no error and leave the filesystem as it is.
C16_MissingRootIsNoOp ==
    MissingRoot => result = Nil /\ Tree = start

\* the half of C16 that holds: CleanupStyleConflicts on a missing projectPath
C16_CleanupMissingRoot ==
    MissingRoot /\ op = "cleanup" => result = Nil /\ Tree = start

----------------------------------------------------------------------------
(* C18 *)

\* tree t with every conflict resolved for style s, directory by directory
ResolvedTree(t, s) ==
    [dirs |-> t.dirs,
     files |-> [d \in Dirs |->
                  [n \in FileNames |->
                     IF \E c \in Pairs : Conflict(t, d, c) /\ n = DroppedName(s, c)
                     THEN "none"
                     ELSE t.files[d][n]]]]

\* no directory the run came to could not be read or written
NoFault == \A d \in Dirs : perm[d].r # "n" /\ perm[d].w # "n"

\* C18 as claimed: with no external modification and no removal failure,
\* whatever the order of the walk, CleanupStyleConflicts returns nil and leaves
\* the tree in which every directory is resolved by its own contents.
C18_AsClaimed ==
    Done("cleanup") /\ Quiet /\ result.kind # "remove" =>
        result = Nil /\ Tree = ResolvedTree(start, style)

\* C18: with no external modification, no removal failure and no directory
\* that cannot be read, whatever the order in which the walk visits the
\* entries of the directories, CleanupStyleConflicts returns nil and leaves
\* the one tree in which every directory is resolved by its own contents.
C18_OrderIndependent ==
    Done("cleanup") /\ Quiet /\ NoFault =>
        result = Nil /\ Tree = ResolvedTree(start, style)

\* a run that visited internal/svc before internal/handler, against the
\* lexical order, and resolved both
C18_Witness ==
    /\ Done("cleanup")
    /\ NoFault
    /\ style = "gozero"
    /\ result = Nil
    /\ removed = {Join(Handler, "service_context.go"), Join(Svc, "service_context.go")}
    /\ visited = <<Root, Internal, Svc, Logic, Handler>>

====
